---------------------------- MODULE Spec2Model ----------------------------
(***************************************************************************)
(* A model of the LaMetric Time "Device API v2" integration                *)
(* (custom_components/lametric_v2): the HTTP client and its endpoint       *)
(* discovery (api.py), the polling coordinator (coordinator.py), the       *)
(* config-entry set-up and the services (__init__.py) and the TTS sink     *)
(* (media_player.py).                                                      *)
(*                                                                         *)
(* Python values are tagged records, so that values of different Python    *)
(* types can be told apart (isinstance) and compared safely.  Strings are  *)
(* TLA+ strings and are taken apart with Len/SubSeq, as str.startswith,    *)
(* str.strip and str.rstrip do.                                            *)
(***************************************************************************)
EXTENDS Integers, Sequences, FiniteSets, TLC

VARIABLES
    net,        \* what each discovery candidate answers to GET <cand>/api/v2
    endpoints,  \* LametricV2Client._endpoints of the client under study
    entries,    \* hass.config_entries.async_entries(DOMAIN), in order
    cfg,        \* entry.data of each config entry
    hassUrls,   \* hass.config.internal_url / external_url
    entryState, \* the host's state of each config entry
    store,      \* hass.data[DOMAIN]: entry_id -> client, coordinator, TTS gate
    devreg,     \* device registry: device -> config entries it belongs to
    platforms,  \* entries whose platforms are forwarded
    services,   \* whether the lametric_v2 services are registered
    lastGood,   \* history: each entry's latest successful get_device result
    tts,        \* the play_tts invocations in progress, and how each ended
    last        \* the most recent call: its inputs, outcome and requests

clientVars == <<net, endpoints>>
cfgVars == <<entries, cfg, hassUrls>>
runVars == <<entryState, store, devreg, platforms, services, lastGood>>
hostVars == <<entries, cfg, hassUrls, entryState, store, devreg, platforms,
              services, lastGood>>
vars == <<net, endpoints, entries, cfg, hassUrls, entryState, store, devreg,
          platforms, services, lastGood, tts, last>>

\* the play_tts invocations that may be in progress at once
MaxInvocations == 2
Invocations == 1..MaxInvocations
\* no play_tts invocation has been made
NoTts == [p \in Invocations |-> [pc |-> "idle"]]

---------------------------------------------------------------------------
(* Python / JSON values *)

PyNone == [t |-> "null"]
JStr(s) == [t |-> "str", s |-> s]
JInt(n) == [t |-> "int", n |-> n]
JList(n) == [t |-> "list", len |-> n]
JDict(d) == [t |-> "dict", d |-> d]
JBool(b) == [t |-> "bool", b |-> b]
\* a float: a finite one by its value in tenths, or the infinity that
\* json.loads makes of a number too large for a double (1e999)
JFloat(tenths) == [t |-> "float", tenths |-> tenths, finite |-> TRUE]
JInf == [t |-> "float", tenths |-> 0, finite |-> FALSE]
EmptyMap == [k \in {} |-> PyNone]

IsDict(v) == v.t = "dict"
IsStr(v) == v.t = "str"
HasKey(v, k) == k \in DOMAIN v.d

\* dict.get(k): the value, or None when the key is missing
DictGet(v, k) == IF k \in DOMAIN v.d THEN v.d[k] ELSE PyNone

\* Python truthiness, as used by "x or y" and "if not x"
Truthy(v) ==
    CASE v.t = "null" -> FALSE
      [] v.t = "str" -> v.s # ""
      [] v.t = "int" -> v.n # 0
      [] v.t = "bool" -> v.b
      [] v.t = "float" -> ~v.finite \/ v.tenths # 0
      [] v.t = "list" -> v.len > 0
      [] v.t = "dict" -> DOMAIN v.d # {}
      [] OTHER -> TRUE

PyOr(a, b) == IF Truthy(a) THEN a ELSE b

StartsWith(s, p) == Len(s) >= Len(p) /\ SubSeq(s, 1, Len(p)) = p

---------------------------------------------------------------------------
(* HTTP responses of the device, and _request_json *)

NetErr == [kind |-> "neterr"]
Http(status, isJson, body) ==
    [kind |-> "http", status |-> status, json |-> isJson, body |-> body]
Malformed == [t |-> "malformed"]

Raise(e, status) == [ex |-> TRUE, err |-> e, status |-> status]
Return(v) == [ex |-> FALSE, val |-> v]

\* api.py: _request_json.  raise_for_status() raises for a status >= 400; a
\* JSON content type is parsed (and a malformed body raises); anything else
\* is read as text, "txt or None".
_request_json(resp) ==
    IF resp.kind = "neterr" THEN Raise("transport", 0)
    ELSE IF resp.status >= 400 THEN Raise("http", resp.status)
    ELSE IF resp.json
         THEN IF resp.body = Malformed THEN Raise("decode", 0)
              ELSE Return(resp.body)
    ELSE Return(PyOr(resp.body, PyNone))

Req(method, url) == [method |-> method, url |-> url]

---------------------------------------------------------------------------
(* Endpoint discovery: LametricV2Client.fetch_endpoints *)

Host == "lm"
NumCandidates == 4

Candidates(host) ==
    << "https://" \o host \o ":4343",
       "http://" \o host \o ":8080",
       "https://" \o host,
       "http://" \o host >>

DiscoveryPath == "/api/v2"

\* One iteration of "for cand in candidates": st holds the loop's locals.
ProbeStep(cand, resp, st) ==
    LET r == _request_json(resp)
        reqs == Append(st.reqs, Req("GET", cand \o DiscoveryPath))
    IN  IF r.ex
        THEN [st EXCEPT !.last_err = JStr(r.err), !.reqs = reqs]
        ELSE IF IsDict(r.val) /\ HasKey(r.val, "endpoints")
        THEN [st EXCEPT !.payload = r.val, !.base = JStr(cand),
                        !.reqs = reqs, !.brk = TRUE]
        ELSE IF IsDict(r.val)
        THEN [st EXCEPT !.payload = r.val, !.base = JStr(cand),
                        !.reqs = reqs, !.brk = TRUE]
        ELSE [st EXCEPT !.payload = r.val, !.reqs = reqs]

RECURSIVE ProbeLoop(_, _, _, _)
ProbeLoop(cands, nt, i, st) ==
    IF i > Len(cands) \/ st.brk THEN st
    ELSE ProbeLoop(cands, nt, i + 1, ProbeStep(cands[i], nt[i], st))

\* The guard of line 84, which decides whether the loop's result is used.
DiscoveryRejected(st) ==
    \/ st.base = PyNone
    \/ ~IsDict(st.payload)
    \/ ~HasKey(st.payload, "endpoints")

\* {k: v for k, v in endpoints.items() if isinstance(k, str) and isinstance(v, str)}
\* (a JSON object's keys are always strings)
StrItems(d) ==
    LET keep == {k \in DOMAIN d : IsStr(d[k])}
    IN  [k \in keep |-> d[k].s]

LametricEndpoints(id, base, api_version, eps) ==
    [t |-> "eps", id |-> id, base_url |-> base,
     api_version |-> api_version, endpoints |-> eps]

Ok(ret, reqs) == [ok |-> TRUE, ret |-> ret, reqs |-> reqs]
Fail(err, reqs) == [ok |-> FALSE, err |-> err, reqs |-> reqs]

\* fetch_endpoints on a client of `host`, the candidates answering `nt`;
\* `id` is the identity of the LametricEndpoints object it would construct.
fetch_endpoints(host, nt, id) ==
    LET st == ProbeLoop(Candidates(host), nt, 1,
                        [payload |-> PyNone, base |-> PyNone,
                         last_err |-> PyNone, reqs |-> <<>>, brk |-> FALSE])
    IN  IF DiscoveryRejected(st)
        THEN Fail("Failed to fetch /api/v2 endpoint map", st.reqs)
        ELSE LET eps == PyOr(DictGet(st.payload, "endpoints"), JDict(EmptyMap))
                 ver == DictGet(st.payload, "api_version")
             IN  IF ~IsDict(eps)
                 THEN Fail("Unexpected endpoints map", st.reqs)
                 ELSE Ok(LametricEndpoints(id, st.base.s,
                                           IF IsStr(ver) THEN ver ELSE PyNone,
                                           StrItems(eps.d)),
                         st.reqs)

\* tools/lametric_v2_probe.py: _urlopen_json.  urlopen raises for a transport
\* error and for a status >= 400; an empty body is None; any other body goes
\* through json.loads whatever its content type (a body not declared as JSON
\* is, in this model, text that is no JSON document).
_urlopen_json(resp) ==
    IF resp.kind = "neterr" THEN Raise("transport", 0)
    ELSE IF resp.status >= 400 THEN Raise("http", resp.status)
    ELSE IF ~resp.json
         THEN IF resp.body = JStr("") THEN Return(PyNone) ELSE Raise("decode", 0)
    ELSE IF resp.body = Malformed THEN Raise("decode", 0)
    ELSE Return(resp.body)

\* tools/lametric_v2_probe.py: _try_api_v2, from candidate i on
RECURSIVE TryLoop(_, _, _, _)
TryLoop(cands, nt, i, reqs) ==
    IF i > Len(cands) THEN Fail("Failed to GET /api/v2", reqs)
    ELSE LET r == _urlopen_json(nt[i])
             rq == Append(reqs, Req("GET", cands[i] \o DiscoveryPath))
         IN  IF r.ex THEN TryLoop(cands, nt, i + 1, rq)
             ELSE IF IsDict(r.val) /\ Truthy(DictGet(r.val, "api_version"))
             THEN Ok([base |-> cands[i], payload |-> r.val], rq)
             ELSE IF IsDict(r.val)
             THEN Ok([base |-> cands[i], payload |-> r.val], rq)
             ELSE TryLoop(cands, nt, i + 1, rq)

_try_api_v2(host, nt) == TryLoop(Candidates(host), nt, 1, <<>>)

\* Object identity: a newly constructed LametricEndpoints is another object
\* than the one the client holds.
IdSpace == 2
NewId(cached) == IF cached = PyNone THEN 1 ELSE (cached.id % IdSpace) + 1

\* (mutant) ensure_endpoints without the "is None" test: discovers every time
ensure_endpoints_refetch(cached, host, nt) ==
    fetch_endpoints(host, nt, NewId(cached))

\* ensure_endpoints: the cached map if there is one, otherwise discovery.
ensure_endpoints(cached, host, nt) ==
    IF cached = PyNone
    THEN fetch_endpoints(host, nt, NewId(cached))
    ELSE Ok(cached, <<>>)

\* (mutant) a failed discovery dropping the map the client held
CacheAfter_clear(cached, r) == IF r.ok THEN r.ret ELSE PyNone

\* self._endpoints after a fetch_endpoints / ensure_endpoints call
CacheAfter(cached, r) == IF r.ok THEN r.ret ELSE cached


---------------------------------------------------------------------------
(* The client's operations: get_device ... set_bluetooth *)

ClientOps ==
    {"get_device", "post_notification", "dismiss_current", "dismiss_all",
     "app_next", "app_prev", "set_display", "set_audio", "set_bluetooth"}

\* the logical name each operation looks up in eps.endpoints
OpKey(op) ==
    CASE op = "get_device" -> "device_url"
      [] op = "post_notification" -> "notifications_url"
      [] op = "dismiss_current" -> "current_notification_url"
      [] op = "dismiss_all" -> "notifications_url"
      [] op = "app_next" -> "apps_switch_next_url"
      [] op = "app_prev" -> "apps_switch_prev_url"
      [] op = "set_display" -> "display_url"
      [] op = "set_audio" -> "audio_url"
      [] op = "set_bluetooth" -> "bluetooth_url"

\* the path each operation appends to eps.base_url otherwise
OpPath(op) ==
    CASE op = "get_device" -> "/api/v2/device"
      [] op = "post_notification" -> "/api/v2/device/notifications"
      [] op = "dismiss_current" -> "/api/v2/device/notifications/current"
      [] op = "dismiss_all" -> "/api/v2/device/notifications"
      [] op = "app_next" -> "/api/v2/device/apps/next"
      [] op = "app_prev" -> "/api/v2/device/apps/prev"
      [] op = "set_display" -> "/api/v2/device/display"
      [] op = "set_audio" -> "/api/v2/device/audio"
      [] op = "set_bluetooth" -> "/api/v2/device/bluetooth"

OpMethod(op) ==
    CASE op = "get_device" -> "GET"
      [] op \in {"post_notification", "app_next", "app_prev"} -> "POST"
      [] op \in {"dismiss_current", "dismiss_all"} -> "DELETE"
      [] OTHER -> "PUT"

\* eps.endpoints.get(key): a str, or None
EndpointGet(eps, key) ==
    IF key \in DOMAIN eps.endpoints THEN JStr(eps.endpoints[key]) ELSE PyNone

\* (mutant) the lookup without "or": an empty value is used as the URL
OpUrl_no_or(eps, op) ==
    IF OpKey(op) \in DOMAIN eps.endpoints
    THEN eps.endpoints[OpKey(op)]
    ELSE eps.base_url \o OpPath(op)

\* url = eps.endpoints.get("<key>") or f"{eps.base_url}<path>"
OpUrl(eps, op) ==
    PyOr(EndpointGet(eps, OpKey(op)), JStr(eps.base_url \o OpPath(op))).s

\* (mutant) get_device without its isinstance check
OpReturn_any_shape(op, val, reqs) ==
    CASE op = "get_device" -> Ok(val, reqs)
      [] op = "post_notification" ->
            Ok(IF IsDict(val) THEN val ELSE PyNone, reqs)
      [] OTHER -> Ok(PyNone, reqs)

\* What the operation makes of the value _request_json returned.
OpReturn(op, val, reqs) ==
    CASE op = "get_device" ->
            IF IsDict(val) THEN Ok(val, reqs)
            ELSE Fail("Unexpected /device response shape", reqs)
      [] op = "post_notification" ->
            Ok(IF IsDict(val) THEN val ELSE PyNone, reqs)
      [] OTHER -> Ok(PyNone, reqs)

\* One operation on a client whose cache is `cached`: ensure_endpoints, the
\* URL, one _request_json answered by `resp`.  An exception of either await
\* propagates to the caller.
\* (mutant) a client that repeats a failed request once
client_call_retry(op, cached, host, nt, resp) ==
    LET e == ensure_endpoints(cached, host, nt)
    IN  IF ~e.ok THEN Fail(e.err, e.reqs)
        ELSE LET r == _request_json(resp)
                 rq == Req(OpMethod(op), OpUrl(e.ret, op))
                 reqs == Append(e.reqs, rq)
             IN  IF r.ex THEN Fail(r.err, Append(reqs, rq))
                 ELSE OpReturn(op, r.val, reqs)

client_call(op, cached, host, nt, resp) ==
    LET e == ensure_endpoints(cached, host, nt)
    IN  IF ~e.ok THEN Fail(e.err, e.reqs)
        ELSE LET r == _request_json(resp)
                 reqs == Append(e.reqs, Req(OpMethod(op), OpUrl(e.ret, op)))
             IN  IF r.ex THEN Fail(r.err, reqs)
                 ELSE OpReturn(op, r.val, reqs)

---------------------------------------------------------------------------
(* The device and the network, as the client sees them *)

\* endpoint maps a firmware may report under "endpoints"
EndpointKeys == {OpKey(op) : op \in ClientOps}
DeviceUrl(k) == "https://lm:4343/api/v2/x/" \o k
FullMap == [k \in EndpointKeys |-> JStr(DeviceUrl(k))]
OneKeyMaps ==
    UNION {{[k \in {key} |-> v] : v \in {JStr(DeviceUrl(key)), JStr(""), JInt(5)}} :
              key \in EndpointKeys}
DeviceMaps == {EmptyMap, FullMap} \cup OneKeyMaps

DiscoveryDoc(m) ==
    Http(200, TRUE, JDict([api_version |-> JStr("2.0.0"), endpoints |-> JDict(m)]))

\* answers of one discovery candidate
DiscoveryResponses ==
    { NetErr,
      Http(200, TRUE, JList(1)),
      Http(200, TRUE, JDict(EmptyMap)),
      Http(200, TRUE, JDict([endpoints |-> PyNone])),
      Http(200, TRUE, JDict([endpoints |-> JList(1)])),
      DiscoveryDoc([device_url |-> JStr(DeviceUrl("device_url"))]) }

\* answers to an operation's own request
OpResponses ==
    { NetErr,
      Http(500, FALSE, JStr("")),
      Http(200, FALSE, JStr("")),
      Http(200, TRUE, JList(1)),
      Http(200, TRUE, JDict([name |-> JStr("LM")])) }

NoCall == [op |-> "none"]
Call(op, before, res) == [op |-> op, before |-> before, res |-> res]

---------------------------------------------------------------------------
(* Actions on one client *)

FetchEndpoints ==
    \E r \in {fetch_endpoints(Host, net, NewId(endpoints))} :
        /\ endpoints' = CacheAfter(endpoints, r)
        /\ last' = Call("fetch_endpoints", endpoints, r)
        /\ UNCHANGED <<tts, net, hostVars>>

EnsureEndpoints ==
    \E r \in {ensure_endpoints(endpoints, Host, net)} :
        /\ endpoints' = CacheAfter(endpoints, r)
        /\ last' = Call("ensure_endpoints", endpoints, r)
        /\ UNCHANGED <<tts, net, hostVars>>

\* the diagnostic tool run against the same device
TryApiV2 ==
    \E r \in {_try_api_v2(Host, net)} :
        /\ last' = Call("_try_api_v2", endpoints, r)
        /\ UNCHANGED <<tts, endpoints, net, hostVars>>

ClientOp(op, resp) ==
    \E e \in {ensure_endpoints(endpoints, Host, net)} :
    \E r \in {client_call(op, endpoints, Host, net, resp)} :
        /\ endpoints' = CacheAfter(endpoints, e)
        /\ last' = [op |-> op, before |-> endpoints, res |-> r, resp |-> resp]
        /\ UNCHANGED <<tts, net, hostVars>>

\* the device or the network changes what a candidate answers
NetChange(i, resp) ==
    /\ net[i] # resp
    /\ net' = [net EXCEPT ![i] = resp]
    /\ last' = NoCall
    /\ UNCHANGED <<tts, endpoints, hostVars>>

NetDown(i) ==
    /\ net[i] # NetErr
    /\ net' = [net EXCEPT ![i] = NetErr]
    /\ last' = NoCall
    /\ UNCHANGED <<tts, endpoints, hostVars>>

\* no config entry yet: async_setup has run, nothing else
NoHost ==
    /\ entries = <<>>
    /\ cfg = EmptyMap
    /\ hassUrls = [internal_url |-> PyNone, external_url |-> PyNone]
    /\ entryState = EmptyMap
    /\ store = EmptyMap
    /\ devreg = EmptyMap
    /\ platforms = {}
    /\ services = FALSE
    /\ lastGood = EmptyMap

(* Discovery alone, every candidate answering anything *)
InitDiscovery ==
    /\ net \in [1..NumCandidates -> DiscoveryResponses]
    /\ endpoints = PyNone
    /\ tts = NoTts
    /\ last = NoCall
    /\ NoHost

NextDiscovery ==
    \/ FetchEndpoints
    \/ EnsureEndpoints
    \/ TryApiV2
    \/ \E i \in 1..NumCandidates, resp \in DiscoveryResponses : NetChange(i, resp)

SpecDiscovery == InitDiscovery /\ [][NextDiscovery]_vars

(* One client against a device reporting one endpoint map *)
InitClient ==
    /\ \E m \in DeviceMaps, up \in SUBSET (1..NumCandidates) :
          net = [i \in 1..NumCandidates |->
                    IF i \in up THEN DiscoveryDoc(m) ELSE NetErr]
    /\ endpoints = PyNone
    /\ tts = NoTts
    /\ last = NoCall
    /\ NoHost

NextClient ==
    \/ FetchEndpoints
    \/ EnsureEndpoints
    \/ \E op \in ClientOps, resp \in OpResponses : ClientOp(op, resp)
    \/ \E i \in 1..NumCandidates : NetDown(i)

SpecClient == InitClient /\ [][NextClient]_vars

---------------------------------------------------------------------------
(* Properties of discovery and of the client *)

\* a response whose body GET /api/v2 delivers as a JSON object
IsJsonObject(resp) ==
    resp.kind = "http" /\ resp.status < 400 /\ resp.json /\ resp.body.t = "dict"

\* the first candidate answering a JSON object, 0 when there is none
FirstObject(nt) ==
    IF \E i \in 1..NumCandidates : IsJsonObject(nt[i])
    THEN CHOOSE i \in 1..NumCandidates :
            IsJsonObject(nt[i]) /\ \A j \in 1..(i - 1) : ~IsJsonObject(nt[j])
    ELSE 0

DiscoveryUrls == {Candidates(Host)[i] \o DiscoveryPath : i \in 1..NumCandidates}
LastReq == last.res.reqs[Len(last.res.reqs)]

\* C1: whenever candidate i is the first to answer a JSON object,
\* fetch_endpoints resolves an EndpointMap whose base_url is candidate i,
\* whatever the later candidates answer.
C1_FirstObjectResolves ==
    last.op = "fetch_endpoints" =>
        \A i \in 1..NumCandidates :
            FirstObject(net) = i =>
                /\ last.res.ok
                /\ last.res.ret.base_url = Candidates(Host)[i]

\* C2: fetch_endpoints fails if and only if no candidate answers a JSON
\* object; a first JSON object without an "endpoints" key is accepted and
\* gives an EndpointMap with an empty endpoints mapping.
C2_FailsIffNoObject ==
    last.op = "fetch_endpoints" =>
        /\ ~last.res.ok <=> FirstObject(net) = 0
        /\ \A i \in 1..NumCandidates :
              (FirstObject(net) = i /\ "endpoints" \notin DOMAIN net[i].body.d) =>
                  last.res.ok /\ last.res.ret.endpoints = EmptyMap

\* C3: once the client holds an EndpointMap, ensure_endpoints (called
\* directly or by an operation) returns that very object, leaves it in the
\* cache and sends no discovery request: an operation sends its own request
\* and nothing else.
C3_CachedMapReused ==
    (last.op \in ClientOps \cup {"ensure_endpoints"} /\ last.before # PyNone) =>
        /\ endpoints = last.before
        /\ \A j \in 1..Len(last.res.reqs) : last.res.reqs[j].url \notin DiscoveryUrls
        /\ last.op = "ensure_endpoints" =>
              last.res.ok /\ last.res.ret = last.before /\ last.res.reqs = <<>>
        /\ last.op \in ClientOps =>
              Len(last.res.reqs) = 1 /\ LastReq.url = OpUrl(last.before, last.op)

C3_Witness ==
    /\ last.op = "dismiss_all"
    /\ last.before # PyNone
    /\ last.res.ok
    /\ net[1] # NetErr

\* C7 as stated: the request goes to the map's value whenever the key is
\* present, and to base_url + default path otherwise.
C7_KeyPresentUsesValue ==
    (last.op \in ClientOps /\ endpoints # PyNone) =>
        LastReq.url = IF OpKey(last.op) \in DOMAIN endpoints.endpoints
                      THEN endpoints.endpoints[OpKey(last.op)]
                      ELSE endpoints.base_url \o OpPath(last.op)

\* C7 (amended): the request goes to the map's value when the map holds a
\* non-empty string for the operation's logical name, and to base_url +
\* default path when the key is missing or its value is the empty string;
\* dismiss_all without a notifications_url goes to
\* base_url + /api/v2/device/notifications.
C7_UrlOrDefault ==
    (last.op \in ClientOps /\ endpoints # PyNone) =>
        /\ LastReq.url =
              IF /\ OpKey(last.op) \in DOMAIN endpoints.endpoints
                 /\ endpoints.endpoints[OpKey(last.op)] # ""
              THEN endpoints.endpoints[OpKey(last.op)]
              ELSE endpoints.base_url \o OpPath(last.op)
        /\ LastReq.method = OpMethod(last.op)
        /\ (last.op = "dismiss_all" /\ "notifications_url" \notin DOMAIN endpoints.endpoints) =>
              LastReq.url = endpoints.base_url \o "/api/v2/device/notifications"

C7_Witness ==
    /\ last.op = "dismiss_all"
    /\ endpoints # PyNone
    /\ "notifications_url" \notin DOMAIN endpoints.endpoints
    /\ LastReq = Req("DELETE", "http://lm:8080/api/v2/device/notifications")

---------------------------------------------------------------------------
(* The host side: config entries, hass.data, the coordinator *)

Range(f) == {f[x] : x \in DOMAIN f}
MapPut(f, k, v) == [x \in DOMAIN f \cup {k} |-> IF x = k THEN v ELSE f[x]]
MapPop(f, k) == [x \in DOMAIN f \ {k} |-> f[x]]

\* status documents a device may answer to GET .../device
SnapA ==
    JDict([name |-> JStr("LM"), serial_number |-> JStr("SN1"),
           wifi |-> JDict([signal_strength |-> JInt(42)])])
SnapB ==
    JDict([name |-> JStr("LM"),
           display |-> JDict([brightness |-> JInt(50)])])

StatusResponses ==
    { NetErr,
      Http(500, FALSE, JStr("")),
      Http(200, TRUE, JList(1)),
      Http(200, TRUE, SnapA),
      Http(200, TRUE, SnapB) }

\* what the candidates answer while an entry is being set up
OnlyCandidate(j, resp) == [i \in 1..NumCandidates |-> IF i = j THEN resp ELSE NetErr]
SetupNets ==
    { OnlyCandidate(1, NetErr),
      OnlyCandidate(1, DiscoveryDoc(EmptyMap)),
      OnlyCandidate(2, DiscoveryDoc(EmptyMap)),
      OnlyCandidate(1, Http(200, TRUE, JDict(EmptyMap))) }

\* (mutant) _async_update_data that swallows an error and reports no data
_async_update_data_swallow(cached, host, nt, resp) ==
    LET r == client_call("get_device", cached, host, nt, resp)
    IN  IF r.ok THEN r ELSE Ok(JDict(EmptyMap), r.reqs)

\* coordinator.py: _async_update_data
_async_update_data(cached, host, nt, resp) ==
    client_call("get_device", cached, host, nt, resp)

\* DataUpdateCoordinator: a refresh that returned replaces `data`; one that
\* raised is logged, keeps `data` and clears last_update_success.  Any
\* refresh serves a refresh that was requested.
coordinator_refresh(st, r) ==
    IF r.ok
    THEN [st EXCEPT !.data = r.ret, !.last_update_success = TRUE,
                    !.refresh_requested = FALSE]
    ELSE [st EXCEPT !.last_update_success = FALSE, !.refresh_requested = FALSE]

\* the dict async_setup_entry puts into hass.data[DOMAIN][entry_id]
NewStore(client, data) ==
    [client |-> client, data |-> data, last_update_success |-> TRUE,
     refresh_requested |-> FALSE,
     last_tts_media_url |-> PyNone, tts_event |-> FALSE]

\* (mutant) the store created as soon as discovery succeeded
SetupStore_early(st, e, f, r) ==
    IF f.ok THEN MapPut(st, e, NewStore(f.ret, IF r.ok THEN r.ret ELSE PyNone))
    ELSE st

\* hass.data[DOMAIN] after async_setup_entry: f is the outcome of
\* fetch_endpoints, r that of the first refresh
SetupStore(st, e, f, r) ==
    IF f.ok /\ r.ok THEN MapPut(st, e, NewStore(f.ret, r.ret)) ELSE st

\* identifiers={(DOMAIN, serial or entry.data[CONF_HOST])}
DeviceIdent(dev, host) ==
    LET sn == DictGet(dev, "serial_number")
    IN  PyOr(IF IsStr(sn) THEN sn ELSE PyNone, JStr(host)).s

\* dev_reg.async_get_or_create(config_entry_id=..., identifiers=...)
DevGetOrCreate(reg, e, ident) ==
    MapPut(reg, ident, (IF ident \in DOMAIN reg THEN reg[ident] ELSE {}) \cup {e})

SetupResult(f, r) ==
    IF f.ok /\ r.ok THEN Ok(JInt(1), f.reqs \o r.reqs)
    ELSE Fail("ConfigEntryNotReady", f.reqs \o (IF f.ok THEN r.reqs ELSE <<>>))

HostCall(op, e, res, extra) == [op |-> op, entry |-> e, res |-> res, x |-> extra]

\* async_setup_entry(hass, entry): the candidates answer nt, the device
\* answers resp to the first refresh
SetupEntry(e, nt, resp) ==
    /\ e \in Range(entries)
    /\ entryState[e] \in {"not_loaded", "setup_retry"}
    /\ \E f \in {fetch_endpoints(cfg[e].host, nt, NewId(PyNone))} :
       \E r \in {IF f.ok THEN _async_update_data(f.ret, cfg[e].host, nt, resp)
                 ELSE Fail("not reached", <<>>)} :
       \E g \in {IF f.ok THEN client_call("get_device", f.ret, cfg[e].host, nt, resp)
                 ELSE Fail("not reached", <<>>)} :
       LET done == f.ok /\ r.ok
       IN  /\ store' = SetupStore(store, e, f, r)
           /\ devreg' = IF done
                        THEN DevGetOrCreate(devreg, e, DeviceIdent(r.ret, cfg[e].host))
                        ELSE devreg
           /\ platforms' = IF done THEN platforms \cup {e} ELSE platforms
           /\ services' = IF done THEN TRUE ELSE services
           /\ entryState' = [entryState EXCEPT ![e] =
                                IF done THEN "loaded" ELSE "setup_retry"]
           /\ lastGood' = IF g.ok THEN [lastGood EXCEPT ![e] = g.ret] ELSE lastGood
           /\ last' = HostCall("async_setup_entry", e, SetupResult(f, r),
                               [fetch_ok |-> f.ok, refresh_ok |-> r.ok])
    /\ UNCHANGED <<tts, clientVars, cfgVars>>

\* (mutant) async_unload_entry dropping the store whatever the platforms said
UnloadEntry_drop(e, unload_ok) ==
    /\ e \in Range(entries)
    /\ entryState[e] = "loaded"
    /\ store' = MapPop(store, e)
    /\ platforms' = IF unload_ok THEN platforms \ {e} ELSE platforms
    /\ entryState' = [entryState EXCEPT ![e] =
                         IF unload_ok THEN "not_loaded" ELSE "failed_unload"]
    /\ last' = HostCall("async_unload_entry", e,
                        Ok(IF unload_ok THEN JInt(1) ELSE JInt(0), <<>>), PyNone)
    /\ UNCHANGED <<tts, clientVars, cfgVars, devreg, services, lastGood>>

\* async_unload_entry(hass, entry): unload_ok is what async_unload_platforms
\* returned
UnloadEntry(e, unload_ok) ==
    /\ e \in Range(entries)
    /\ entryState[e] = "loaded"
    /\ store' = IF unload_ok THEN MapPop(store, e) ELSE store
    /\ platforms' = IF unload_ok THEN platforms \ {e} ELSE platforms
    /\ entryState' = [entryState EXCEPT ![e] =
                         IF unload_ok THEN "not_loaded" ELSE "failed_unload"]
    /\ last' = HostCall("async_unload_entry", e,
                        Ok(IF unload_ok THEN JInt(1) ELSE JInt(0), <<>>), PyNone)
    /\ UNCHANGED <<tts, clientVars, cfgVars, devreg, services, lastGood>>

\* one refresh of the entry's coordinator (the periodic poll, or a requested
\* refresh), the device answering resp
Poll(e, resp) ==
    /\ e \in DOMAIN store
    /\ \E r \in {_async_update_data(store[e].client, cfg[e].host, net, resp)} :
       \E g \in {client_call("get_device", store[e].client, cfg[e].host, net, resp)} :
           /\ store' = [store EXCEPT ![e] = coordinator_refresh(@, r)]
           /\ lastGood' = IF g.ok THEN [lastGood EXCEPT ![e] = g.ret] ELSE lastGood
           /\ last' = HostCall("poll", e, r,
                               [device_ok |-> g.ok, before |-> store[e].data,
                                resp |-> resp])
    /\ UNCHANGED <<tts, clientVars, cfgVars, entryState, devreg, platforms, services>>

EntryIds == {"e1", "e2"}

InitHost ==
    /\ net = OnlyCandidate(1, NetErr)
    /\ endpoints = PyNone
    /\ entries = <<"e1", "e2">>
    /\ cfg = [e \in EntryIds |-> [host |-> IF e = "e1" THEN "lm1" ELSE "lm2",
                                  base_url |-> JStr("")]]
    /\ hassUrls = [internal_url |-> PyNone, external_url |-> PyNone]
    /\ entryState = [e \in EntryIds |-> "not_loaded"]
    /\ store = EmptyMap
    /\ devreg = EmptyMap
    /\ platforms = {}
    /\ services = FALSE
    /\ lastGood = [e \in EntryIds |-> PyNone]
    /\ tts = NoTts
    /\ last = NoCall

NextHost ==
    \/ \E e \in EntryIds, nt \in SetupNets, resp \in StatusResponses :
          SetupEntry(e, nt, resp)
    \/ \E e \in EntryIds, unload_ok \in BOOLEAN : UnloadEntry(e, unload_ok)
    \/ \E e \in EntryIds, resp \in StatusResponses : Poll(e, resp)

SpecHost == InitHost /\ [][NextHost]_vars

\* C5: the coordinator's snapshot is the unmerged result of the most recent
\* successful get_device call; a successful poll replaces it wholesale, a
\* failed poll keeps the previous snapshot and surfaces the failure.
C5_SnapshotIsLatestSuccess ==
    /\ \A e \in DOMAIN store : store[e].data = lastGood[e]
    /\ last.op = "poll" =>
          /\ last.x.device_ok =>
                last.res.ok /\ last.entry \in DOMAIN store
                /\ store[last.entry].data = last.res.ret
                /\ store[last.entry].last_update_success
          /\ ~last.x.device_ok =>
                ~last.res.ok /\ store[last.entry].data = last.x.before
                /\ ~store[last.entry].last_update_success

C5_Witness ==
    /\ last.op = "poll"
    /\ ~last.x.device_ok
    /\ store[last.entry].data = SnapA
    /\ \E e \in DOMAIN store : store[e].data = SnapB

\* C6: a set-up attempt whose discovery or first refresh fails ends with
\* ConfigEntryNotReady and leaves hass.data, the forwarded platforms and the
\* registered services as they were.
C6_FailedSetupChangesNothing ==
    [][(last'.op = "async_setup_entry"
        /\ (~last'.x.fetch_ok \/ ~last'.x.refresh_ok))
       => /\ ~last'.res.ok
          /\ last'.res.err = "ConfigEntryNotReady"
          /\ store' = store
          /\ platforms' = platforms
          /\ services' = services
          /\ last'.entry \notin DOMAIN store']_vars

C6_Witness ==
    /\ last.op = "async_setup_entry"
    /\ last.x.fetch_ok
    /\ ~last.x.refresh_ok
    /\ last.entry = "e2"
    /\ "e1" \in DOMAIN store
    /\ "e2" \notin DOMAIN store

---------------------------------------------------------------------------
(* The services' helpers: device resolution and URL absolutization *)

\* entries[i..] searched for the first entry the device belongs to:
\* "for entry in entries: if entry.entry_id in device.config_entries"
RECURSIVE FirstEntryOf(_, _, _)
FirstEntryOf(ents, owners, i) ==
    IF i > Len(ents) THEN Fail("device_id does not belong to lametric_v2", <<>>)
    ELSE IF ents[i] \in owners THEN Ok(JStr(ents[i]), <<>>)
    ELSE FirstEntryOf(ents, owners, i + 1)

\* (mutant) the sole-entry shortcut taken whenever device_id is omitted
_get_entry_for_device_id_first(ents, reg, device_id) ==
    IF ents = <<>> THEN Fail("No lametric_v2 entries configured", <<>>)
    ELSE IF device_id = PyNone THEN Ok(JStr(ents[1]), <<>>)
    ELSE IF device_id.s \notin DOMAIN reg THEN Fail("Unknown device_id", <<>>)
    ELSE FirstEntryOf(ents, reg[device_id.s], 1)

\* _get_entry_for_device_id(hass, device_id)
_get_entry_for_device_id(ents, reg, device_id) ==
    IF ents = <<>> THEN Fail("No lametric_v2 entries configured", <<>>)
    ELSE IF device_id = PyNone
    THEN IF Len(ents) = 1 THEN Ok(JStr(ents[1]), <<>>)
         ELSE Fail("Multiple lametric_v2 devices configured; specify device_id", <<>>)
    ELSE IF device_id.s \notin DOMAIN reg THEN Fail("Unknown device_id", <<>>)
    ELSE FirstEntryOf(ents, reg[device_id.s], 1)

\* str.rstrip("/")
RECURSIVE RStripSlash(_)
RStripSlash(s) ==
    IF Len(s) > 0 /\ SubSeq(s, Len(s), Len(s)) = "/"
    THEN RStripSlash(SubSeq(s, 1, Len(s) - 1))
    ELSE s

\* str.strip(), for the blank this model's strings may hold
RECURSIVE Strip(_)
Strip(s) ==
    IF Len(s) > 0 /\ SubSeq(s, 1, 1) = " " THEN Strip(SubSeq(s, 2, Len(s)))
    ELSE IF Len(s) > 0 /\ SubSeq(s, Len(s), Len(s)) = " "
    THEN Strip(SubSeq(s, 1, Len(s) - 1))
    ELSE s

\* (mutant) _get_base_url preferring the host's internal URL
_get_base_url_internal_first(urls, data) ==
    IF IsStr(urls.internal_url) /\ urls.internal_url.s # ""
    THEN JStr(RStripSlash(urls.internal_url.s))
    ELSE IF Strip(PyOr(data.base_url, JStr("")).s) # ""
    THEN JStr(RStripSlash(Strip(PyOr(data.base_url, JStr("")).s)))
    ELSE IF IsStr(urls.external_url) /\ urls.external_url.s # ""
    THEN JStr(RStripSlash(urls.external_url.s))
    ELSE PyNone

\* _get_base_url(hass, entry): a str, or None
_get_base_url(urls, data) ==
    LET base == Strip(PyOr(data.base_url, JStr("")).s)
    IN  IF base # "" THEN JStr(RStripSlash(base))
        ELSE IF IsStr(urls.internal_url) /\ urls.internal_url.s # ""
        THEN JStr(RStripSlash(urls.internal_url.s))
        ELSE IF IsStr(urls.external_url) /\ urls.external_url.s # ""
        THEN JStr(RStripSlash(urls.external_url.s))
        ELSE PyNone

NoBaseUrlError == "Need an absolute URL but no base_url is configured."

\* _absolutize_url(hass, entry, url): the URL, or the error raised
_absolutize_url(urls, data, url) ==
    IF StartsWith(url, "http://") \/ StartsWith(url, "https://")
    THEN Ok(JStr(url), <<>>)
    ELSE LET base == _get_base_url(urls, data)
         IN  IF ~Truthy(base) THEN Fail(NoBaseUrlError, <<>>)
             ELSE Ok(JStr(base.s \o (IF StartsWith(url, "/") THEN url
                                     ELSE "/" \o url)), <<>>)

---------------------------------------------------------------------------
(* The services registered by _register_services *)

DEFAULT_ICON == "i3092"

\* outcome of one service call: how it ended, the entry it resolved, the
\* payloads it handed to client.post_notification
Svc(res, entry, posts) == [res |-> res, entry |-> entry, posts |-> posts]
SvcCall(op, call, o) ==
    [op |-> op, call |-> call, res |-> o.res, entry |-> o.entry, posts |-> o.posts]

\* The first two statements of every service: the entry, then
\* hass.data[DOMAIN][entry.entry_id] (a KeyError when there is no store).
ServiceEntry(call) ==
    LET en == _get_entry_for_device_id(entries, devreg, call.device_id)
    IN  IF ~en.ok THEN Svc(en, PyNone, <<>>)
        ELSE IF en.ret.s \notin DOMAIN store
        THEN Svc(Fail("KeyError", <<>>), en.ret, <<>>)
        ELSE Svc(en, en.ret, <<>>)

\* client.<op>(...) of the entry's client
EntryClientCall(op, e, resp) ==
    client_call(op, store[e].client, cfg[e].host, net, resp)

\* dismiss_current / dismiss_all
dismiss(op, call, resp) ==
    LET pre == ServiceEntry(call)
    IN  IF ~pre.res.ok THEN pre
        ELSE Svc(EntryClientCall(op, pre.entry.s, resp), pre.entry, <<>>)

Mp3Payload(priority, cycles, icon, text, url) ==
    [priority |-> priority, icon_type |-> "info",
     model |-> [cycles |-> cycles,
                frames |-> <<[icon |-> icon, text |-> text]>>,
                sound |-> [url |-> url, type |-> "mp3",
                           fallback |-> [category |-> "notifications", id |-> "cat"]]]]

\* play_mp3_url(call)
play_mp3_url(call, resp) ==
    LET pre == ServiceEntry(call)
    IN  IF ~pre.res.ok THEN pre
        ELSE LET e == pre.entry.s
                 u == _absolutize_url(hassUrls, cfg[e], call.mp3_url)
             IN  IF ~u.ok THEN Svc(u, pre.entry, <<>>)
                 ELSE LET payload ==
                             Mp3Payload(PyOr(call.priority, JStr("info")).s,
                                        PyOr(call.cycles, JInt(1)).n,
                                        PyOr(call.icon, JStr(DEFAULT_ICON)).s,
                                        call.text, u.ret.s)
                      IN  Svc(EntryClientCall("post_notification", e, resp),
                              pre.entry, <<payload>>)

Digit(d) == SubSeq("0123456789", d + 1, d + 1)
RECURSIVE NatStr(_)
NatStr(n) == IF n < 10 THEN Digit(n) ELSE NatStr(n \div 10) \o Digit(n % 10)

\* f"{temp:.1f}C", the temperature given in tenths of a degree
TempText(tenths) ==
    LET a == IF tenths < 0 THEN -tenths ELSE tenths
    IN  (IF tenths < 0 THEN "-" ELSE "") \o NatStr(a \div 10) \o "."
        \o Digit(a % 10) \o "C"

\* (mutant) the two arrows swapped
ArrowIcon_swapped(direction, up, down) ==
    IF direction = "up" THEN PyOr(down, JStr(DEFAULT_ICON)).s
    ELSE PyOr(up, JStr(DEFAULT_ICON)).s

\* arrow_icon = arrow_up_icon if direction == "up" else arrow_down_icon
ArrowIcon(direction, up, down) ==
    IF direction = "up" THEN PyOr(up, JStr(DEFAULT_ICON)).s
    ELSE PyOr(down, JStr(DEFAULT_ICON)).s

SetpointFrames(arrow_icon, temp_text) ==
    << [icon |-> arrow_icon, text |-> temp_text, duration |-> 800],
       [icon |-> arrow_icon, text |-> " ", duration |-> 250],
       [icon |-> arrow_icon, text |-> temp_text, duration |-> 800] >>

\* show_setpoint_change(call)
show_setpoint_change(call, resp) ==
    LET pre == ServiceEntry(call)
    IN  IF ~pre.res.ok THEN pre
        ELSE LET payload ==
                    [priority |-> PyOr(call.priority, JStr("info")).s,
                     icon_type |-> "info",
                     model |-> [cycles |-> PyOr(call.cycles, JInt(2)).n,
                                frames |-> SetpointFrames(
                                    ArrowIcon(call.direction, call.arrow_up_icon,
                                              call.arrow_down_icon),
                                    TempText(call.temperature_c))]]
             IN  Svc(EntryClientCall("post_notification", pre.entry.s, resp),
                     pre.entry, <<payload>>)

Dismiss(op, call, resp) ==
    /\ services
    /\ \E o \in {dismiss(op, call, resp)} : last' = SvcCall(op, call, o)
    /\ UNCHANGED <<tts, clientVars, hostVars>>

PlayMp3Url(call, resp) ==
    /\ services
    /\ \E o \in {play_mp3_url(call, resp)} : last' = SvcCall("play_mp3_url", call, o)
    /\ UNCHANGED <<tts, clientVars, hostVars>>

ShowSetpointChange(call, resp) ==
    /\ services
    /\ \E o \in {show_setpoint_change(call, resp)} :
          last' = SvcCall("show_setpoint_change", call, o)
    /\ UNCHANGED <<tts, clientVars, hostVars>>

\* the store of an entry whose set-up found the device at its first candidate
LoadedStore(host) ==
    NewStore(fetch_endpoints(host, OnlyCandidate(1, DiscoveryDoc(EmptyMap)),
                             NewId(PyNone)).ret, SnapA)

EntryHost(e) == IF e = "e1" THEN "lm1" ELSE "lm2"
PostResponses == {NetErr, Http(200, TRUE, JDict([success |-> JDict(EmptyMap)]))}

---------------------------------------------------------------------------
(* Device resolution: the dismiss services over every registry *)

EntryLists == {<<>>, <<"e1">>, <<"e1", "e2">>, <<"e2", "e1">>}
DeviceIdInputs == {PyNone, JStr("SN1"), JStr("lm2"), JStr("hue1"), JStr("nope")}

\* Entries `loaded` are set up (each has its store and its device); the
\* registry also holds a device of another integration's entry "x1".
InitResolve ==
    /\ net = OnlyCandidate(1, NetErr)
    /\ endpoints = PyNone
    /\ entries \in EntryLists
    /\ cfg = [e \in Range(entries) |-> [host |-> EntryHost(e), base_url |-> JStr("")]]
    /\ hassUrls = [internal_url |-> PyNone, external_url |-> PyNone]
    /\ \E f \in [{"SN1", "lm2"} -> (SUBSET (Range(entries) \cup {"x1"})) \ {{}}] :
          devreg = MapPut(f, "hue1", {"x1"})
    /\ \E loaded \in SUBSET Range(entries) :
          /\ \A e \in loaded : \E d \in DOMAIN devreg : e \in devreg[d]
          /\ store = [e \in loaded |-> LoadedStore(EntryHost(e))]
          /\ entryState = [e \in Range(entries) |->
                              IF e \in loaded THEN "loaded" ELSE "not_loaded"]
          /\ platforms = loaded
          /\ lastGood = [e \in Range(entries) |->
                            IF e \in loaded THEN SnapA ELSE PyNone]
    /\ services = TRUE
    /\ tts = NoTts
    /\ last = NoCall

NextResolve ==
    \E op \in {"dismiss_current", "dismiss_all"}, d \in DeviceIdInputs,
       resp \in PostResponses :
        Dismiss(op, [device_id |-> d], resp)

SpecResolve == InitResolve /\ [][NextResolve]_vars

Failed(call) == call.entry = PyNone /\ ~call.res.ok /\ call.res.reqs = <<>>

\* C9: without a device_id the service resolves the entry exactly when one
\* lametric_v2 entry is configured and fails for zero or several; with a
\* device_id it resolves an entry the device belongs to (the first one in
\* the entries' order) and fails for an unknown device and for a device of
\* no lametric_v2 entry.
C9_DeviceResolution ==
    last.op \in {"dismiss_current", "dismiss_all"} =>
        LET d == last.call.device_id
            mine == IF d # PyNone /\ d.s \in DOMAIN devreg
                    THEN devreg[d.s] \cap Range(entries) ELSE {}
        IN  IF d = PyNone
            THEN /\ Len(entries) = 1 => last.entry = JStr(entries[1])
                 /\ Len(entries) # 1 => Failed(last)
            ELSE IF mine # {}
            THEN /\ last.entry # PyNone
                 /\ last.entry.s \in mine
                 /\ \A i, j \in 1..Len(entries) :
                       (entries[j] = last.entry.s /\ i < j) => entries[i] \notin mine
            ELSE Failed(last)

C9_Witness ==
    /\ last.op = "dismiss_all"
    /\ last.call.device_id = JStr("SN1")
    /\ entries = <<"e1", "e2">>
    /\ devreg["SN1"] = {"e2", "x1"}
    /\ last.entry = JStr("e2")
    /\ last.res.ok

---------------------------------------------------------------------------
(* play_mp3_url and show_setpoint_change on one configured device *)

\* the flow stores any string the user typed, stripped (config_flow.py:125)
BaseUrlValues ==
    {JStr(""), JStr("/"), JStr("https://ha.local:8123"), JStr("https://ha.local:8123/"),
     JStr("ha.local:8123")}
InternalUrls == {PyNone, JStr("http://int:8123"), JStr("http://int:8123/")}
ExternalUrls == {PyNone, JStr("https://ext.example")}

Mp3Urls == {"http://x/a.mp3", "https://x/a.mp3", "a.mp3", "/a.mp3", "//x/a.mp3", ""}
CycleInputs == {PyNone, JInt(0), JInt(3), JInt(-1)}
IconPriority == {<<PyNone, PyNone>>, <<JStr("i1"), JStr("critical")>>}
Temperatures == {215, -5}

InitServices ==
    /\ net = OnlyCandidate(1, NetErr)
    /\ endpoints = PyNone
    /\ entries = <<"e1">>
    /\ \E b \in BaseUrlValues : cfg = [e \in {"e1"} |-> [host |-> "lm1", base_url |-> b]]
    /\ \E i \in InternalUrls, x \in ExternalUrls :
          hassUrls = [internal_url |-> i, external_url |-> x]
    /\ devreg = [d \in {"SN1"} |-> {"e1"}]
    /\ store = [e \in {"e1"} |-> LoadedStore("lm1")]
    /\ entryState = [e \in {"e1"} |-> "loaded"]
    /\ platforms = {"e1"}
    /\ lastGood = [e \in {"e1"} |-> SnapA]
    /\ services = TRUE
    /\ tts = NoTts
    /\ last = NoCall

\* the calls the schema of play_mp3_url admits
Mp3Calls ==
    {[device_id |-> PyNone, text |-> "hi", mp3_url |-> u,
      icon |-> ip[1], cycles |-> c, priority |-> ip[2]] :
        u \in Mp3Urls, c \in CycleInputs, ip \in IconPriority}

\* the calls the schema of show_setpoint_change admits
SetpointCalls ==
    {[device_id |-> PyNone, temperature_c |-> t, direction |-> dir,
      arrow_up_icon |-> up, arrow_down_icon |-> down, cycles |-> c,
      priority |-> PyNone] :
        dir \in {"up", "down"}, up \in {PyNone, JStr("u1")},
        down \in {PyNone, JStr("d1")}, c \in CycleInputs, t \in Temperatures}

NextServices ==
    \/ \E call \in Mp3Calls, resp \in PostResponses : PlayMp3Url(call, resp)
    \/ \E call \in SetpointCalls, resp \in PostResponses :
          ShowSetpointChange(call, resp)

SpecServices == InitServices /\ [][NextServices]_vars

IsAbsolute(u) == StartsWith(u, "http://") \/ StartsWith(u, "https://")

RECURSIVE LStripSlash(_)
LStripSlash(s) ==
    IF Len(s) > 0 /\ SubSeq(s, 1, 1) = "/" THEN LStripSlash(SubSeq(s, 2, Len(s)))
    ELSE s

\* the first non-empty of the configured base_url, the internal URL and the
\* external URL, None when there is none
FirstNonEmptyBase ==
    LET c == <<cfg["e1"].base_url, hassUrls.internal_url, hassUrls.external_url>>
        ok(i) == IsStr(c[i]) /\ c[i].s # ""
    IN  IF ok(1) THEN c[1] ELSE IF ok(2) THEN c[2] ELSE IF ok(3) THEN c[3]
        ELSE PyNone

PostedSound(u) ==
    /\ Len(last.posts) = 1
    /\ last.posts[1].model.sound.url = u
    /\ Len(last.res.reqs) = 1

NoBaseFailure ==
    /\ ~last.res.ok
    /\ last.res.err = NoBaseUrlError
    /\ last.posts = <<>>
    /\ last.res.reqs = <<>>

\* C8 as stated: an http(s) URL is unchanged; any other is joined to the
\* first non-empty base with exactly one slash; the action fails, posting
\* nothing, exactly when none of the three bases is available.
C8_JoinWithOneSlash ==
    last.op = "play_mp3_url" =>
        LET u == last.call.mp3_url
            b == FirstNonEmptyBase
        IN  IF IsAbsolute(u) THEN PostedSound(u)
            ELSE IF b = PyNone THEN NoBaseFailure
            ELSE PostedSound(RStripSlash(b.s) \o "/" \o LStripSlash(u))

\* C8 (amended): an http(s) URL is unchanged; any other is appended to the
\* first non-empty base with its trailing slashes removed, a "/" put in
\* between only when the path does not start with one; the action fails,
\* posting nothing, when no base is available or the chosen base is made of
\* slashes only.
C8_Absolutize ==
    last.op = "play_mp3_url" =>
        LET u == last.call.mp3_url
            b == FirstNonEmptyBase
        IN  IF IsAbsolute(u) THEN PostedSound(u)
            ELSE IF b = PyNone \/ RStripSlash(b.s) = "" THEN NoBaseFailure
            ELSE PostedSound(RStripSlash(b.s)
                             \o (IF StartsWith(u, "/") THEN u ELSE "/" \o u))

C8_Witness ==
    /\ last.op = "play_mp3_url"
    /\ last.call.mp3_url = "a.mp3"
    /\ cfg["e1"].base_url = JStr("https://ha.local:8123")
    /\ hassUrls.internal_url # PyNone
    /\ PostedSound("https://ha.local:8123/a.mp3")

\* C10: show_setpoint_change posts one notification of three frames lasting
\* 800, 250 and 800 ms; frames 1 and 3 show the requested direction's icon
\* and the temperature, frame 2 is the blank one.
C10_SetpointFrames ==
    last.op = "show_setpoint_change" =>
        /\ Len(last.posts) = 1
        /\ Len(last.res.reqs) = 1
        /\ last.res.reqs[1] = Req("POST", "https://lm1:4343/api/v2/device/notifications")
        /\ LET f == last.posts[1].model.frames
               given == IF last.call.direction = "up" THEN last.call.arrow_up_icon
                        ELSE last.call.arrow_down_icon
               icon == IF given = PyNone THEN "i3092" ELSE given.s
               text == CASE last.call.temperature_c = 215 -> "21.5C"
                         [] last.call.temperature_c = -5 -> "-0.5C"
           IN  /\ Len(f) = 3
               /\ <<f[1].duration, f[2].duration, f[3].duration>> = <<800, 250, 800>>
               /\ f[1].icon = icon /\ f[3].icon = icon
               /\ f[1].text = text /\ f[3].text = text
               /\ f[2].text = " "

C10_Witness ==
    /\ last.op = "show_setpoint_change"
    /\ last.call.direction = "up"
    /\ last.call.arrow_up_icon = JStr("u1")
    /\ last.call.arrow_down_icon = JStr("d1")
    /\ last.res.ok
    /\ last.posts[1].model.frames[1] = [icon |-> "u1", text |-> "21.5C", duration |-> 800]

---------------------------------------------------------------------------
(* play_tts: the capture gate shared with the TTS sink *)

TtsTimeoutError == "Timed out waiting for TTS media URL capture."
EmptyCaptureError == "TTS media URL capture failed (empty media URL)."
ResolveError == "Failed to resolve media-source URL for TTS output."

Messages == {"m1", "m2"}

\* what a TTS engine may hand to the sink for a message: a URL, a path of
\* this host, a media-source identifier, or nothing
MediaIds ==
    {"", "/api/tts_proxy/m1.mp3", "media-source://tts/m2"}
    \cup {"http://ha:8123/tts/" \o m \o ".mp3" : m \in Messages}

\* media_source.async_resolve_media(hass, media_id, None): raises, or
\* returns an object whose url is a path, a URL or None
ResolveKinds == {"path", "url", "none", "raise"}
async_resolve_media(media_id, kind) ==
    LET m == SubSeq(media_id, Len(media_id) - 1, Len(media_id))
    IN  CASE kind = "raise" -> Fail("Unresolvable media", <<>>)
          [] kind = "none" -> Ok(PyNone, <<>>)
          [] kind = "path" -> Ok(JStr("/api/tts_proxy/" \o m \o ".mp3"), <<>>)
          [] kind = "url" -> Ok(JStr("http://ha:8123/tts/" \o m \o ".mp3"), <<>>)

\* message[:60]
Take(s, n) == SubSeq(s, 1, IF Len(s) < n THEN Len(s) ELSE n)

\* play_tts once its wait is over: the captured URL is read, resolved when
\* it is a media-source identifier, made absolute and posted; kind is what
\* the media-source resolution answers, resp what the device answers
play_tts_post(call, e, kind, resp) ==
    LET media_url == store[e].last_tts_media_url
    IN  IF ~IsStr(media_url) \/ media_url.s = ""
        THEN Svc(Fail(EmptyCaptureError, <<>>), JStr(e), <<>>)
        ELSE
        LET r == IF StartsWith(media_url.s, "media-source://")
                 THEN async_resolve_media(media_url.s, kind)
                 ELSE Ok(media_url, <<>>)
        IN  IF ~r.ok THEN Svc(r, JStr(e), <<>>)
            ELSE IF ~IsStr(r.ret) \/ r.ret.s = ""
            THEN Svc(Fail(ResolveError, <<>>), JStr(e), <<>>)
            ELSE
            LET u == _absolutize_url(hassUrls, cfg[e], r.ret.s)
            IN  IF ~u.ok THEN Svc(u, JStr(e), <<>>)
                ELSE Svc(EntryClientCall("post_notification", e, resp), JStr(e),
                         <<Mp3Payload(PyOr(call.priority, JStr("info")).s, 1,
                                      PyOr(call.icon, JStr(DEFAULT_ICON)).s,
                                      Take(call.message, 60), u.ret.s)>>)

\* (mutant) the TimeoutError of the wait swallowed
play_tts_wait_swallow(call, e, timed_out, kind, resp) ==
    play_tts_post(call, e, kind, resp)

\* play_tts from the end of its wait on: timed_out tells whether wait_for
\* raised TimeoutError
play_tts_wait(call, e, timed_out, kind, resp) ==
    IF timed_out THEN Svc(Fail(TtsTimeoutError, <<>>), JStr(e), <<>>)
    ELSE play_tts_post(call, e, kind, resp)

\* an invocation that has ended; wait tells how its wait for the capture
\* signal went: "none" (it never waited), "signalled" (the signal was set
\* when the wait began or during it), "expired" (it was not)
\* History kept with an invocation inv: cap is the last media_id the sink
\* stored since the invocation's gate reset (None when there was none),
\* alone tells that no other invocation was in progress during it.
Ended(inv, o, wait) ==
    [pc |-> IF o.res.ok THEN "done" ELSE "failed", call |-> inv.call,
     entry |-> o.entry, wait |-> wait, res |-> o.res, posts |-> o.posts,
     cap |-> inv.cap, alone |-> inv.alone]

InProgress(p) == tts[p].pc \in {"speak", "wait", "woken"}

\* (mutant) play_tts without ev.clear() and store["last_tts_media_url"] = None
GateReset_keep(st) == st

\* ev.clear(); store["last_tts_media_url"] = None
GateReset(st) == [st EXCEPT !.tts_event = FALSE, !.last_tts_media_url = PyNone]

\* (mutant) play_tts holding a lock of the entry from its start to its end
TtsStart_exclusive(p, call) ==
    /\ services
    /\ \A q \in Invocations : ~InProgress(q)
    /\ \E pre \in {ServiceEntry(call)} :
          /\ pre.res.ok
          /\ store' = [store EXCEPT ![pre.entry.s] = GateReset(@)]
          /\ tts' = [tts EXCEPT ![p] = [pc |-> "speak", call |-> call,
                                        entry |-> pre.entry, cap |-> PyNone,
                                        alone |-> TRUE]]
    /\ UNCHANGED <<clientVars, cfgVars, entryState, devreg, platforms, services,
                   lastGood, last>>

\* play_tts up to the tts.speak call: the entry, then the gate reset
TtsStart(p, call) ==
    /\ services
    /\ tts[p].pc \in {"idle", "done", "failed"}
    /\ \E pre \in {ServiceEntry(call)} :
          IF ~pre.res.ok
          THEN /\ tts' = [tts EXCEPT ![p] =
                              Ended([call |-> call, cap |-> PyNone, alone |-> TRUE],
                                    pre, "none")]
               /\ UNCHANGED store
          ELSE /\ store' = [store EXCEPT ![pre.entry.s] = GateReset(@)]
               /\ tts' = [q \in Invocations |->
                             IF q = p
                             THEN [pc |-> "speak", call |-> call, entry |-> pre.entry,
                                   cap |-> PyNone,
                                   alone |-> \A o \in Invocations \ {p} : ~InProgress(o)]
                             ELSE IF InProgress(q) THEN [tts[q] EXCEPT !.alone = FALSE]
                             ELSE tts[q]]
    /\ UNCHANGED <<clientVars, cfgVars, entryState, devreg, platforms, services,
                   lastGood, last>>

\* (mutant) a sink that only releases the invocations waiting right now and
\* leaves no signal behind
AsyncPlayMedia_notify(e, media_id) ==
    /\ e \in platforms
    /\ e \in DOMAIN store
    /\ store' = [store EXCEPT ![e].last_tts_media_url = JStr(media_id)]
    /\ tts' = [p \in Invocations |->
                  IF InProgress(p) /\ tts[p].entry = JStr(e)
                  THEN [tts[p] EXCEPT !.cap = JStr(media_id),
                                      !.pc = IF @ = "wait" THEN "woken" ELSE @]
                  ELSE tts[p]]
    /\ UNCHANGED <<clientVars, cfgVars, entryState, devreg, platforms, services,
                   lastGood, last>>

\* LametricTtsSink.async_play_media of entry e's sink: the URL is stored,
\* then the signal is set, which releases every invocation waiting on it
AsyncPlayMedia(e, media_id) ==
    /\ e \in platforms
    /\ e \in DOMAIN store
    /\ store' = [store EXCEPT ![e].last_tts_media_url = JStr(media_id),
                              ![e].tts_event = TRUE]
    /\ tts' = [p \in Invocations |->
                  IF InProgress(p) /\ tts[p].entry = JStr(e)
                  THEN [tts[p] EXCEPT !.cap = JStr(media_id),
                                      !.pc = IF @ = "wait" THEN "woken" ELSE @]
                  ELSE tts[p]]
    /\ UNCHANGED <<clientVars, cfgVars, entryState, devreg, platforms, services,
                   lastGood, last>>

\* the blocking tts.speak call raises
TtsSpeakFails(p) ==
    /\ tts[p].pc = "speak"
    /\ tts' = [tts EXCEPT ![p] =
                  Ended(tts[p],
                        Svc(Fail("tts.speak failed", <<>>), tts[p].entry, <<>>),
                        "none")]
    /\ UNCHANGED <<clientVars, hostVars, last>>

\* tts.speak returns: with the signal already set the wait is over at once
\* and play_tts runs on; otherwise the invocation waits
TtsSpeakReturns(p, kind, resp) ==
    /\ tts[p].pc = "speak"
    /\ IF store[tts[p].entry.s].tts_event
       THEN \E o \in {play_tts_wait(tts[p].call, tts[p].entry.s, FALSE, kind, resp)} :
               tts' = [tts EXCEPT ![p] = Ended(tts[p], o, "signalled")]
       ELSE tts' = [tts EXCEPT ![p].pc = "wait"]
    /\ UNCHANGED <<clientVars, hostVars, last>>

\* an invocation released by the signal runs on
TtsResume(p, kind, resp) ==
    /\ tts[p].pc = "woken"
    /\ \E o \in {play_tts_wait(tts[p].call, tts[p].entry.s, FALSE, kind, resp)} :
          tts' = [tts EXCEPT ![p] = Ended(tts[p], o, "signalled")]
    /\ UNCHANGED <<clientVars, hostVars, last>>

\* _TTS_TIMEOUT_S pass without the signal: wait_for raises TimeoutError
TtsTimeout(p, kind, resp) ==
    /\ tts[p].pc = "wait"
    /\ \E o \in {play_tts_wait(tts[p].call, tts[p].entry.s, TRUE, kind, resp)} :
          tts' = [tts EXCEPT ![p] = Ended(tts[p], o, "expired")]
    /\ UNCHANGED <<clientVars, hostVars, last>>

TtsCalls ==
    {[device_id |-> PyNone, message |-> m, icon |-> PyNone, priority |-> PyNone] :
        m \in Messages}

InitTts ==
    /\ net = OnlyCandidate(1, NetErr)
    /\ endpoints = PyNone
    /\ entries = <<"e1">>
    /\ \E b \in {JStr(""), JStr("https://ha.local:8123")} :
          cfg = [e \in {"e1"} |-> [host |-> "lm1", base_url |-> b]]
    /\ hassUrls = [internal_url |-> PyNone, external_url |-> PyNone]
    /\ devreg = [d \in {"SN1"} |-> {"e1"}]
    /\ store = [e \in {"e1"} |-> LoadedStore("lm1")]
    /\ entryState = [e \in {"e1"} |-> "loaded"]
    /\ platforms = {"e1"}
    /\ lastGood = [e \in {"e1"} |-> SnapA]
    /\ services = TRUE
    /\ tts = NoTts
    /\ last = NoCall

NextTts ==
    \/ \E p \in Invocations, call \in TtsCalls : TtsStart(p, call)
    \/ \E media_id \in MediaIds : AsyncPlayMedia("e1", media_id)
    \/ \E p \in Invocations : TtsSpeakFails(p)
    \/ \E p \in Invocations, kind \in ResolveKinds, resp \in PostResponses :
          \/ TtsSpeakReturns(p, kind, resp)
          \/ TtsResume(p, kind, resp)
          \/ TtsTimeout(p, kind, resp)

SpecTts == InitTts /\ [][NextTts]_vars

TtsEnded(p) == tts[p].pc \in {"done", "failed"}

\* C4: an invocation whose wait ended without the capture signal fails with
\* the capture-timeout error, having posted nothing and sent no request;
\* and only such an invocation reports that error.
C4_TimeoutPostsNothing ==
    \A p \in Invocations :
        TtsEnded(p) =>
            /\ tts[p].wait = "expired" =>
                  /\ ~tts[p].res.ok
                  /\ tts[p].res.err = TtsTimeoutError
                  /\ tts[p].posts = <<>>
                  /\ tts[p].res.reqs = <<>>
            /\ (~tts[p].res.ok /\ tts[p].res.err = TtsTimeoutError) =>
                  tts[p].wait = "expired"

\* an invocation timed out while the other one, released by a capture,
\* posted its notification
C4_Witness ==
    /\ tts[1].pc = "failed"
    /\ tts[1].wait = "expired"
    /\ tts[1].res.err = TtsTimeoutError
    /\ tts[2].pc = "done"
    /\ Len(tts[2].posts) = 1

---------------------------------------------------------------------------
(* The entities' projections of the coordinator's snapshot *)

\* isinstance(v, (int, float)): bool is a subclass of int
IsNumber(v) == v.t \in {"int", "float", "bool"}

\* integer division truncating toward zero, as int() of a float does
TruncDiv(a, b) == IF a < 0 THEN -((-a) \div b) ELSE a \div b

\* int(v) of a number: an infinite float raises OverflowError
PyInt(v) ==
    CASE v.t = "int" -> Return(JInt(v.n))
      [] v.t = "bool" -> Return(JInt(IF v.b THEN 1 ELSE 0))
      [] v.t = "float" -> IF v.finite THEN Return(JInt(TruncDiv(v.tenths, 10)))
                          ELSE Raise("OverflowError", 0)

\* float(v) of a number
PyFloat(v) ==
    CASE v.t = "int" -> Return(JFloat(10 * v.n))
      [] v.t = "bool" -> Return(JFloat(IF v.b THEN 10 ELSE 0))
      [] v.t = "float" -> Return(v)

\* LametricV2Entity._device: coordinator.data or {}
_device(data) == PyOr(data, JDict(EmptyMap))

\* (mutant) signal_strength looked at before strength
WifiSignal_signal_first(data) ==
    LET wifi == DictGet(_device(data), "wifi")
    IN  IF ~IsDict(wifi) THEN Return(PyNone)
        ELSE IF IsNumber(DictGet(wifi, "signal_strength"))
        THEN PyInt(DictGet(wifi, "signal_strength"))
        ELSE IF IsNumber(DictGet(wifi, "strength"))
        THEN PyInt(DictGet(wifi, "strength"))
        ELSE Return(PyNone)

\* LametricWifiSignalSensor.native_value
WifiSignal(data) ==
    LET wifi == DictGet(_device(data), "wifi")
    IN  IF ~IsDict(wifi) THEN Return(PyNone)
        ELSE IF IsNumber(DictGet(wifi, "strength"))
        THEN PyInt(DictGet(wifi, "strength"))
        ELSE IF IsNumber(DictGet(wifi, "signal_strength"))
        THEN PyInt(DictGet(wifi, "signal_strength"))
        ELSE Return(PyNone)

\* LametricBrightnessNumber.native_value / LametricVolumeNumber.native_value
NumberValue(data, section, field) ==
    LET sec == DictGet(_device(data), section)
    IN  IF IsDict(sec) /\ IsNumber(DictGet(sec, field))
        THEN PyFloat(sec.d[field])
        ELSE Return(PyNone)

\* LametricBrightnessModeSelect.current_option
CurrentOption(data) ==
    LET disp == DictGet(_device(data), "display")
        mode == IF IsDict(disp) THEN DictGet(disp, "brightness_mode") ELSE PyNone
    IN  Return(IF IsStr(mode) THEN mode ELSE PyNone)

\* LametricBluetoothSwitch.is_on
IsOn(data) ==
    LET bt == DictGet(_device(data), "bluetooth")
        active == IF IsDict(bt) THEN DictGet(bt, "active") ELSE PyNone
    IN  Return(IF active.t = "bool" THEN active ELSE PyNone)

Accessors == {"wifi_signal", "brightness", "volume", "brightness_mode", "bluetooth"}

Projection(acc, data) ==
    CASE acc = "wifi_signal" -> WifiSignal(data)
      [] acc = "brightness" -> NumberValue(data, "display", "brightness")
      [] acc = "volume" -> NumberValue(data, "audio", "volume")
      [] acc = "brightness_mode" -> CurrentOption(data)
      [] acc = "bluetooth" -> IsOn(data)

\* an entity of entry e is read by the host
ReadState(e, acc) ==
    /\ e \in platforms
    /\ e \in DOMAIN store
    /\ last' = [op |-> "read", entry |-> e, acc |-> acc,
                data |-> store[e].data, res |-> Projection(acc, store[e].data)]
    /\ UNCHANGED <<tts, clientVars, hostVars>>

\* values a firmware may put in a field of its status document
FieldValues ==
    {PyNone, JStr("80"), JInt(42), JInt(-3), JFloat(427), JFloat(-15), JInf,
     JBool(TRUE), JBool(FALSE), JList(1), JDict(EmptyMap)}
ModeValues == {PyNone, JStr("auto"), JInt(1), JBool(TRUE)}
SectionJunk == {PyNone, JStr("x"), JInt(1), JList(1)}

\* a dict with the field absent or holding one of vals
Opt(field, vals) == {EmptyMap} \cup {[k \in {field} |-> v] : v \in vals}
Merge(a, b) == [k \in DOMAIN a \cup DOMAIN b |-> IF k \in DOMAIN a THEN a[k] ELSE b[k]]

WifiDicts ==
    {Merge(a, b) : a \in Opt("strength", FieldValues),
                   b \in Opt("signal_strength", FieldValues)}
DisplayDicts ==
    {Merge(a, b) : a \in Opt("brightness", FieldValues),
                   b \in Opt("brightness_mode", ModeValues)}

\* status documents with one section, which is a dict or is not
Section(name, dicts) ==
    {JDict([k \in {name} |-> v]) : v \in SectionJunk \cup {JDict(d) : d \in dicts}}

Snapshots ==
    {JDict(EmptyMap), SnapA, SnapB}
    \cup Section("wifi", WifiDicts) \cup Section("display", DisplayDicts)
    \cup Section("audio", Opt("volume", FieldValues))
    \cup Section("bluetooth", Opt("active", FieldValues))

\* the state-mutating entity actions: the client operation each one calls
\* and the JSON object it sends
EntityActions ==
    {"set_brightness", "set_volume", "select_brightness_mode",
     "bluetooth_on", "bluetooth_off"}
ActionOp(action) ==
    CASE action \in {"set_brightness", "select_brightness_mode"} -> "set_display"
      [] action = "set_volume" -> "set_audio"
      [] action \in {"bluetooth_on", "bluetooth_off"} -> "set_bluetooth"
ActionPayload(action, value) ==
    CASE action = "set_brightness" -> [brightness |-> PyInt(value).val]
      [] action = "set_volume" -> [volume |-> PyInt(value).val]
      [] action = "select_brightness_mode" -> [brightness_mode |-> value]
      [] action = "bluetooth_on" -> [active |-> JBool(TRUE)]
      [] action = "bluetooth_off" -> [active |-> JBool(FALSE)]
ActionValues(action) ==
    CASE action \in {"set_brightness", "set_volume"} -> {JFloat(805)}
      [] action = "select_brightness_mode" -> {JStr("auto"), JStr("manual")}
      [] OTHER -> {PyNone}
\* answers of the device to a PUT
ActionResponses == {NetErr, Http(500, FALSE, JStr("")), Http(200, FALSE, JStr(""))}

\* (mutant) the refresh requested whatever the PUT did
RefreshRequested_always(r, requested) == TRUE

\* await client.set_...(); await coordinator.async_request_refresh():
\* whether a refresh is requested once the action has ended
RefreshRequested(r, requested) == IF r.ok THEN TRUE ELSE requested

\* async_set_native_value / async_select_option / async_turn_on /
\* async_turn_off of an entity of entry e, the device answering resp
EntityAction(e, action, value, resp) ==
    /\ e \in platforms
    /\ e \in DOMAIN store
    /\ \E r \in {client_call(ActionOp(action), store[e].client, cfg[e].host, net, resp)} :
          /\ store' = [store EXCEPT ![e].refresh_requested =
                                        RefreshRequested(r, @)]
          /\ last' = [op |-> "entity_action", entry |-> e, action |-> action,
                      payload |-> ActionPayload(action, value), res |-> r,
                      put_ok |-> ~_request_json(resp).ex,
                      before |-> store[e]]
    /\ UNCHANGED <<tts, clientVars, cfgVars, entryState, devreg, platforms,
                   services, lastGood>>

\* one entry set up, its coordinator holding any status document
InitEntities ==
    /\ net = OnlyCandidate(1, DiscoveryDoc(EmptyMap))
    /\ endpoints = PyNone
    /\ entries = <<"e1">>
    /\ cfg = [e \in {"e1"} |-> [host |-> "lm1", base_url |-> JStr("")]]
    /\ hassUrls = [internal_url |-> PyNone, external_url |-> PyNone]
    /\ devreg = [d \in {"SN1"} |-> {"e1"}]
    /\ \E snap \in Snapshots :
          /\ store = [e \in {"e1"} |-> [LoadedStore("lm1") EXCEPT !.data = snap]]
          /\ lastGood = [e \in {"e1"} |-> snap]
    /\ entryState = [e \in {"e1"} |-> "loaded"]
    /\ platforms = {"e1"}
    /\ services = TRUE
    /\ tts = NoTts
    /\ last = NoCall

\* answers to GET .../device: failures, bodies that are no JSON object
\* (non-JSON text, nothing, JSON of another shape, unparsable JSON), objects
PollResponses ==
    StatusResponses \cup
    { Http(401, FALSE, JStr("")),
      Http(200, FALSE, JStr("hello")),
      Http(200, FALSE, JStr("")),
      Http(200, TRUE, PyNone),
      Http(200, TRUE, JInt(7)),
      Http(200, TRUE, JStr("ok")),
      Http(200, TRUE, JBool(TRUE)),
      Http(200, TRUE, Malformed),
      Http(200, TRUE, JDict(EmptyMap)) }

NextEntities ==
    \/ \E acc \in Accessors : ReadState("e1", acc)
    \/ \E resp \in PollResponses : Poll("e1", resp)
    \/ \E action \in EntityActions, resp \in ActionResponses :
          \E value \in ActionValues(action) : EntityAction("e1", action, value, resp)

SpecEntities == InitEntities /\ [][NextEntities]_vars

IsFiniteNumber(v) == v.t = "int" \/ (v.t = "float" /\ v.finite)
IsNoNumber(v) == v.t \in {"null", "str", "list", "dict"}
AsInt(v) == IF v.t = "int" THEN v.n ELSE TruncDiv(v.tenths, 10)
ReadWifi == 
    /\ last.op = "read" 
    /\ last.acc = "wifi_signal"
    /\ IsDict(last.data) 
    /\ IsDict(DictGet(last.data, "wifi"))
WifiField(k) == DictGet(DictGet(last.data, "wifi"), k)
WifiHas(k) == k \in DOMAIN DictGet(last.data, "wifi").d

\* C11 as stated: signal_strength alone is returned; when both fields are
\* present the result is that of strength, whatever strength holds.
C11_StrengthAlwaysFirst ==
    ReadWifi =>
        /\ (~WifiHas("strength") /\ IsFiniteNumber(WifiField("signal_strength")))
              => last.res = Return(JInt(AsInt(WifiField("signal_strength"))))
        /\ (WifiHas("strength") /\ WifiHas("signal_strength")) =>
              /\ IsFiniteNumber(WifiField("strength"))
                    => last.res = Return(JInt(AsInt(WifiField("strength"))))
              /\ IsNoNumber(WifiField("strength")) => last.res = Return(PyNone)

\* C11 (amended): a wifi.strength that is a finite number is returned, as an
\* integer, whatever signal_strength holds; when strength is missing or is
\* no number, a signal_strength that is a finite number is returned.
C11_WifiSignal ==
    ReadWifi =>
        /\ IsFiniteNumber(WifiField("strength"))
              => last.res = Return(JInt(AsInt(WifiField("strength"))))
        /\ (IsNoNumber(WifiField("strength"))
            /\ IsFiniteNumber(WifiField("signal_strength")))
              => last.res = Return(JInt(AsInt(WifiField("signal_strength"))))

C11_Witness ==
    /\ ReadWifi
    /\ WifiField("strength") = JFloat(427)
    /\ WifiField("signal_strength") = JInt(-3)
    /\ last.res = Return(JInt(42))

\* the section and the fields an accessor reads, and the type it wants
AccSection(acc) ==
    CASE acc = "wifi_signal" -> "wifi"
      [] acc \in {"brightness", "brightness_mode"} -> "display"
      [] acc = "volume" -> "audio"
      [] acc = "bluetooth" -> "bluetooth"
AccFields(acc) ==
    CASE acc = "wifi_signal" -> {"strength", "signal_strength"}
      [] acc = "brightness" -> {"brightness"}
      [] acc = "brightness_mode" -> {"brightness_mode"}
      [] acc = "volume" -> {"volume"}
      [] acc = "bluetooth" -> {"active"}
AccWants(acc, v) ==
    CASE acc \in {"wifi_signal", "brightness", "volume"} -> v.t \in {"int", "float"}
      [] acc = "brightness_mode" -> v.t = "str"
      [] acc = "bluetooth" -> v.t = "bool"

\* the snapshot holds nothing of the wanted type for the accessor
Unavailable(acc, data) ==
    LET sec == DictGet(_device(data), AccSection(acc))
    IN  ~IsDict(sec) \/ \A f \in AccFields(acc) : ~AccWants(acc, DictGet(sec, f))

\* C12: reading an accessor never raises and leaves the snapshot as it was;
\* when the section is missing or no dict, or the field is missing or of
\* another type than the accessor's, the result is None.
C12_UnknownNeverRaises ==
    last.op = "read" =>
        /\ ~last.res.ex
        /\ Unavailable(last.acc, last.data) => last.res.val = PyNone
        /\ store[last.entry].data = last.data

ShapeError == "Unexpected /device response shape"

\* the response is a success whose body can be read
ReadableBody(resp) ==
    resp.kind = "http" /\ resp.status < 400 /\ ~(resp.json /\ resp.body = Malformed)

---------------------------------------------------------------------------
(* The config flow: ConfigFlow.async_step_user *)

\* str.find(sub) + 1: the first position of sub in s, 0 when there is none
Find(s, sub) ==
    LET at == {i \in 1..Len(s) : i + Len(sub) - 1 <= Len(s)
                                  /\ SubSeq(s, i, i + Len(sub) - 1) = sub}
    IN  IF at = {} THEN 0 ELSE CHOOSE i \in at : \A j \in at : i <= j

\* str.count(ch) and str.isdigit()
Count(s, ch) == Cardinality({i \in 1..Len(s) : SubSeq(s, i, i) = ch})
IsDigit(s) ==
    Len(s) > 0 /\ \A i \in 1..Len(s) : Find("0123456789", SubSeq(s, i, i)) > 0

\* yarl's URL(raw).host: the authority up to its port, "" when there is none
UrlHost(raw) ==
    LET rest == SubSeq(raw, Find(raw, "://") + 3, Len(raw))
        auth == IF Find(rest, "/") = 0 THEN rest
                ELSE SubSeq(rest, 1, Find(rest, "/") - 1)
    IN  IF Find(auth, ":") = 0 THEN auth ELSE SubSeq(auth, 1, Find(auth, ":") - 1)

\* config_flow.py: _normalize_host
_normalize_host(input) ==
    LET raw == Strip(input)
    IN  IF Find(raw, "://") > 0 /\ UrlHost(raw) # "" THEN UrlHost(raw)
        ELSE IF Count(raw, ":") = 1 /\ IsDigit(SubSeq(raw, Find(raw, ":") + 1, Len(raw)))
        THEN SubSeq(raw, 1, Find(raw, ":") - 1)
        ELSE raw

\* config_flow.py: _validate on a new client: the exception it raises (with
\* the HTTP status of a ClientResponseError), or the status document
_validate(host, nt, resp) ==
    LET f == fetch_endpoints(host, nt, NewId(PyNone))
        r == _request_json(resp)
        g == client_call("get_device", f.ret, host, nt, resp)
    IN  IF ~f.ok THEN [exc |-> "LametricV2Error", status |-> 0, fetch_ok |-> FALSE]
        ELSE IF r.ex
        THEN [exc |-> IF r.err = "http" THEN "ClientResponseError" ELSE r.err,
              status |-> r.status, fetch_ok |-> TRUE]
        ELSE IF ~g.ok THEN [exc |-> "LametricV2Error", status |-> 0, fetch_ok |-> TRUE]
        ELSE [exc |-> "none", device |-> g.ret, fetch_ok |-> TRUE]

FlowForm(error) == [type |-> "form", error |-> error]

\* async_step_user(user_input) from the outcome v of _validate(host) on:
\* the form shown again with an error, the flow aborted for a device
\* already configured, or the entry created
async_step_user(ents, cf, input, host, v) ==
    IF v.exc = "ClientResponseError"
    THEN FlowForm(IF v.status \in {401, 403} THEN "invalid_auth"
                  ELSE "cannot_connect")
    ELSE IF v.exc # "none" THEN FlowForm("cannot_connect")
    ELSE LET sn == DictGet(v.device, "serial_number")
             unique_id == IF IsStr(sn) THEN sn ELSE PyNone
         IN  IF Truthy(unique_id)
                /\ \E e \in Range(ents) : cf[e].unique_id = unique_id
             THEN [type |-> "abort", error |-> "already_configured"]
             ELSE [type |-> "create_entry", error |-> "",
                   data |-> [host |-> host,
                             base_url |-> JStr(Strip(PyOr(input.base_url, JStr("")).s)),
                             unique_id |-> unique_id]]

NewEntryId(ents) == IF "e1" \notin Range(ents) THEN "e1" ELSE "e2"

\* the user submits the set-up form; the candidates answer nt to the
\* discovery, the device answers resp to the status request
ConfigFlowUser(input, nt, resp) ==
    /\ Range(entries) # EntryIds
    /\ \E host \in {_normalize_host(input.host)} :
       \E v \in {_validate(host, nt, resp)} :
       \E o \in {async_step_user(entries, cfg, input, host, v)} :
          /\ IF o.type = "create_entry"
             THEN /\ entries' = Append(entries, NewEntryId(entries))
                  /\ cfg' = MapPut(cfg, NewEntryId(entries), o.data)
                  /\ entryState' = MapPut(entryState, NewEntryId(entries), "not_loaded")
                  /\ lastGood' = MapPut(lastGood, NewEntryId(entries), PyNone)
             ELSE UNCHANGED <<entries, cfg, entryState, lastGood>>
          /\ last' = [op |-> "async_step_user", input |-> input, nt |-> nt,
                      resp |-> resp, result |-> o, fetch_ok |-> v.fetch_ok,
                      before |-> entries]
    /\ UNCHANGED <<tts, clientVars, hassUrls, store, devreg, platforms, services>>

AllCandidates(resp) == [i \in 1..NumCandidates |-> resp]
Status(code) == Http(code, FALSE, JStr(""))

\* what the candidates answer to the flow's discovery
FlowNets ==
    { AllCandidates(NetErr),
      AllCandidates(Status(401)), AllCandidates(Status(403)),
      AllCandidates(Status(500)),
      OnlyCandidate(1, Status(401)),
      OnlyCandidate(1, DiscoveryDoc(EmptyMap)),
      OnlyCandidate(1, Http(200, TRUE, JDict(EmptyMap))),
      [OnlyCandidate(2, DiscoveryDoc(EmptyMap)) EXCEPT ![1] = Status(401)] }
FlowResponses ==
    { NetErr, Status(401), Status(403), Status(500),
      Http(200, TRUE, JList(1)), Http(200, FALSE, JStr("hello")),
      Http(200, TRUE, SnapA), Http(200, TRUE, SnapB) }
FlowInputs ==
    { [host |-> " lm1 ", base_url |-> JStr(" https://ha.local:8123 ")],
      [host |-> "https://lm1:4343/api", base_url |-> PyNone],
      [host |-> "lm2:4343", base_url |-> JStr("")] }

InitFlow ==
    /\ net = OnlyCandidate(1, NetErr)
    /\ endpoints = PyNone
    /\ tts = NoTts
    /\ last = NoCall
    /\ NoHost

NextFlow ==
    \E input \in FlowInputs, nt \in FlowNets, resp \in FlowResponses :
        ConfigFlowUser(input, nt, resp)

SpecFlow == InitFlow /\ [][NextFlow]_vars

Rejects(resp) == resp.kind = "http" /\ resp.status \in {401, 403}

\* the validation ran into rejected credentials: every discovery request
\* was answered 401/403, or, after a discovery, the status request was
FlowRejected ==
    \/ ~last.fetch_ok /\ \A i \in 1..NumCandidates : Rejects(last.nt[i])
    \/ last.fetch_ok /\ Rejects(last.resp)

\* the validation ran into another HTTP status or a connection failure
FlowUnreachable ==
    \/ ~last.fetch_ok /\ \A i \in 1..NumCandidates :
           last.nt[i].kind = "neterr" \/ last.nt[i].status = 500
    \/ last.fetch_ok /\ (last.resp.kind = "neterr" \/ last.resp.status = 500)

\* C14: rejected credentials, at the discovery or at the status request,
\* are reported as invalid_auth; other HTTP statuses and connection
\* failures as cannot_connect; no entry is created in either case.
C14_RejectedIsInvalidAuth ==
    last.op = "async_step_user" =>
        /\ FlowRejected => last.result = FlowForm("invalid_auth")
        /\ FlowUnreachable => last.result = FlowForm("cannot_connect")
        /\ last.result.type = "form" => entries = last.before

---------------------------------------------------------------------------
(* play_tts: where the posted sound URL comes from *)

\* the URLs play_tts may make of a captured media_id: the media_id itself or
\* what the media-source resolution answers for it, made absolute
DerivedUrls(e, media_id) ==
    LET from == {JStr(media_id)} \cup
                {async_resolve_media(media_id, k).ret : k \in {"path", "url"}}
    IN  {_absolutize_url(hassUrls, cfg[e], u.s).ret.s :
            u \in {v \in from : _absolutize_url(hassUrls, cfg[e], v.s).ok}}

Posted(p) == tts[p].pc \in {"done", "failed"} /\ tts[p].posts # <<>>
PostedUrl(p) == tts[p].posts[1].model.sound.url

\* C15: the sound URL an invocation posts is made of the media_id the sink
\* stored last since that invocation's gate reset; an invocation that saw
\* no capture after its reset posts nothing, whatever the gate held before.
C15_PostedUrlIsFresh ==
    \A p \in Invocations :
        Posted(p) =>
            /\ tts[p].cap # PyNone
            /\ PostedUrl(p) \in DerivedUrls(tts[p].entry.s, tts[p].cap.s)

\* two invocations that did not overlap, the gate still holding the first
\* one's capture when the other started, each posted its own URL
C15_Witness ==
    /\ Posted(1) /\ tts[1].alone /\ tts[1].call.message = "m1"
    /\ PostedUrl(1) = "http://ha:8123/tts/m1.mp3"
    /\ Posted(2) /\ tts[2].alone /\ tts[2].call.message = "m2"
    /\ PostedUrl(2) = "http://ha:8123/tts/m2.mp3"
    /\ store["e1"].last_tts_media_url = JStr("http://ha:8123/tts/m2.mp3")

\* C16: nothing keeps a second invocation from starting on the entry while
\* one is in progress, and starting it resets the gate they share.
C16_NoMutualExclusion ==
    \A p \in Invocations :
        (InProgress(p) /\ \E q \in Invocations \ {p} : ~InProgress(q)) =>
            ENABLED (\E q \in Invocations \ {p}, call \in TtsCalls :
                        /\ TtsStart(q, call)
                        /\ store'[tts[p].entry.s].last_tts_media_url = PyNone
                        /\ ~store'[tts[p].entry.s].tts_event)

\* of two overlapping invocations, the one for m1 posted the URL captured
\* for m2 and the one for m2, its capture erased, timed out
C16_Witness ==
    /\ Posted(1) /\ ~tts[1].alone /\ tts[1].call.message = "m1"
    /\ PostedUrl(1) = "http://ha:8123/tts/m2.mp3"
    /\ tts[2].pc = "failed" /\ ~tts[2].alone /\ tts[2].call.message = "m2"
    /\ tts[2].cap = JStr("http://ha:8123/tts/m2.mp3")
    /\ tts[2].res.err = EmptyCaptureError

---------------------------------------------------------------------------
(* Entity actions and the refresh they request *)

\* C17: an entity action sends one PUT; when the PUT succeeded a refresh is
\* requested, when it failed the action fails and requests none; either way
\* the snapshot is the one from before the action.
C17_RefreshOnlyAfterPut ==
    last.op = "entity_action" =>
        LET st == store[last.entry]
        IN  /\ Len(last.res.reqs) = 1
            /\ last.res.reqs[1].method = "PUT"
            /\ last.res.ok = last.put_ok
            /\ last.put_ok => st.refresh_requested
            /\ ~last.put_ok => st.refresh_requested = last.before.refresh_requested
            /\ st.data = last.before.data

\* the brightness was set and the refresh is still to come: the snapshot
\* holds the brightness from before
C17_Witness ==
    /\ last.op = "entity_action"
    /\ last.action = "set_brightness"
    /\ last.payload = [brightness |-> JInt(80)]
    /\ last.res.ok
    /\ store["e1"].refresh_requested
    /\ NumberValue(store["e1"].data, "display", "brightness") = Return(JFloat(500))

---------------------------------------------------------------------------
(* Requests issued by one call of the client *)

\* the requests of one discovery over candidates answering nt: the candidates
\* in order, up to and including the first that answers a JSON object
DiscoveryLength(nt) ==
    IF FirstObject(nt) = 0 THEN NumCandidates ELSE FirstObject(nt)

DiscoveryRequests(nt) ==
    [i \in 1..DiscoveryLength(nt) |-> Req("GET", Candidates(Host)[i] \o DiscoveryPath)]

\* what a call had to discover first: nothing on a client holding a map
Discovered(before, nt) ==
    IF before = PyNone THEN DiscoveryRequests(nt) ELSE <<>>

RequestFailed(resp) == _request_json(resp).ex

\* C18: a call never repeats a request. One discovery asks the candidates in
\* their fixed order, each at most once, and stops at the first that answers
\* a JSON object; every other operation issues, after the discovery it may
\* need, exactly one request to its target URL, and when that request fails
\* the operation fails with the request's error.
C18_NoRetries ==
    /\ last.op = "fetch_endpoints" =>
          last.res.reqs = DiscoveryRequests(net)
    /\ last.op = "ensure_endpoints" =>
          last.res.reqs = Discovered(last.before, net)
    /\ last.op \in ClientOps =>
          LET pre == Discovered(last.before, net)
              reqs == last.res.reqs
          IN  IF endpoints = PyNone
              THEN ~last.res.ok /\ reqs = pre
              ELSE /\ reqs = Append(pre, Req(OpMethod(last.op), OpUrl(endpoints, last.op)))
                   /\ RequestFailed(last.resp) =>
                         /\ ~last.res.ok
                         /\ last.res.err = _request_json(last.resp).err

C18_Witness ==
    /\ last.op = "set_audio"
    /\ last.before = PyNone
    /\ net[1] = NetErr
    /\ net[2] # NetErr
    /\ last.resp = Http(500, FALSE, JStr(""))
    /\ ~last.res.ok
    /\ Len(last.res.reqs) = 3

---------------------------------------------------------------------------
(* The cycle count of a posted notification *)

\* C19: every payload posted by play_mp3_url or show_setpoint_change has
\* model.cycles >= 1, whatever integer the caller gave for cycles, and the
\* default (1 for play_mp3_url, 2 for show_setpoint_change) when none is given.
C19_CyclesAtLeastOne ==
    last.op \in {"play_mp3_url", "show_setpoint_change"} =>
        \A i \in 1..Len(last.posts) :
            /\ last.posts[i].model.cycles >= 1
            /\ last.call.cycles = PyNone =>
                  last.posts[i].model.cycles =
                      (IF last.op = "play_mp3_url" THEN 1 ELSE 2)

---------------------------------------------------------------------------
(* The scheme of a posted sound URL *)

\* C20: every sound.url posted by play_mp3_url starts with http:// or
\* https://, whatever base_url the entry was configured with and whatever
\* internal and external URL the host has.
C20_SoundUrlIsHttp ==
    last.op = "play_mp3_url" =>
        \A i \in 1..Len(last.posts) : IsAbsolute(last.posts[i].model.sound.url)

---------------------------------------------------------------------------
(* How a service call ends *)

\* the messages of the HomeAssistantError raised by the services themselves
ServiceMessages ==
    { "No lametric_v2 entries configured",
      "Multiple lametric_v2 devices configured; specify device_id",
      "Unknown device_id",
      "device_id does not belong to lametric_v2",
      NoBaseUrlError, TtsTimeoutError, EmptyCaptureError, ResolveError }

\* the exceptions of the client's request, which name the URL and the cause
RequestErrors == {"transport", "http", "decode"}

Descriptive(err) == err \in ServiceMessages \cup RequestErrors

\* C21: a dismiss_current or dismiss_all call either returns after exactly
\* one DELETE through the resolved entry's client, or fails with an error
\* that carries a descriptive message, also when the resolved entry has no
\* store.
C21_FailsDescriptively ==
    last.op \in {"dismiss_current", "dismiss_all"} =>
        IF last.res.ok
        THEN /\ Len(last.res.reqs) = 1
             /\ last.res.reqs[1].method = "DELETE"
             /\ last.entry # PyNone
             /\ StartsWith(last.res.reqs[1].url,
                           "https://" \o cfg[last.entry.s].host \o ":4343/")
        ELSE /\ Len(last.res.reqs) <= 1
             /\ Descriptive(last.res.err)

---------------------------------------------------------------------------
(* The diagnostic tool against the client *)

\* C22: whatever the candidates answer, _try_api_v2 and fetch_endpoints
\* agree: both select the same candidate base URL, or both fail.
C22_ProbeAgreesWithClient ==
    last.op = "_try_api_v2" =>
        LET f == fetch_endpoints(Host, net, NewId(endpoints))
        IN  /\ last.res.ok <=> f.ok
            /\ last.res.ok => last.res.ret.base = f.ret.base_url

---------------------------------------------------------------------------
(* The capture signal of play_tts *)

Waited(p) == tts[p].pc \in {"done", "failed"} /\ tts[p].wait # "none"

\* the invocation went on with the URL the sink stored last
ReadCapture(p) ==
    /\ tts[p].wait = "signalled"
    /\ tts[p].res.ok \/ tts[p].res.err # TtsTimeoutError
    /\ tts[p].cap.s = "" <=> (~tts[p].res.ok /\ tts[p].res.err = EmptyCaptureError)
    /\ tts[p].posts # <<>> =>
          PostedUrl(p) \in DerivedUrls(tts[p].entry.s, tts[p].cap.s)

\* the capture made while tts.speak is still running stays in the gate
CaptureKept(p) ==
    LET st == store[tts[p].entry.s]
    IN  /\ tts[p].pc = "speak" /\ tts[p].cap # PyNone =>
              st.tts_event /\ st.last_tts_media_url = tts[p].cap
        /\ tts[p].pc = "wait" => tts[p].cap = PyNone /\ ~st.tts_event

\* C23 as stated: once the sink has run after an invocation's gate reset,
\* also during tts.speak, the invocation's wait does not time out and it
\* reads the captured URL.
C23_NoLostWakeup ==
    \A p \in Invocations :
        (Waited(p) /\ tts[p].cap # PyNone) => ReadCapture(p)

\* C23 (amended): the same for an invocation during which no other
\* invocation of play_tts was in progress.
C23_NoLostWakeupAlone ==
    \A p \in Invocations :
        /\ (InProgress(p) /\ tts[p].alone) => CaptureKept(p)
        /\ (Waited(p) /\ tts[p].alone /\ tts[p].cap # PyNone) => ReadCapture(p)

\* the sink ran while tts.speak of a lone invocation had not returned yet
C23_Witness ==
    /\ tts[1].pc = "speak"
    /\ tts[1].alone
    /\ tts[1].call.message = "m1"
    /\ tts[1].cap = JStr("http://ha:8123/tts/m1.mp3")
    /\ store["e1"].tts_event
    /\ tts[2].pc = "done" /\ tts[2].alone /\ Posted(2)

---------------------------------------------------------------------------
(* The cache after a failed discovery *)

\* C24: a fetch_endpoints that fails leaves the client's map as it was, none
\* when there was none and the previous map otherwise; the failure is not
\* remembered: on a client without a map the next ensure_endpoints asks the
\* candidates again.
C24_FailureLeavesCache ==
    /\ (last.op \in {"fetch_endpoints", "ensure_endpoints"} /\ ~last.res.ok) =>
          endpoints = last.before
    /\ (last.op \in {"fetch_endpoints", "ensure_endpoints"} /\ ~last.res.ok
           /\ endpoints = PyNone) =>
          ENABLED (/\ EnsureEndpoints
                   /\ last'.res.reqs = DiscoveryRequests(net)
                   /\ last'.res.reqs # <<>>)

\* a client holding the map of candidate 1 discovered again when the first
\* object answered had a list for "endpoints": it still holds its map
C24_Witness ==
    /\ last.op = "fetch_endpoints"
    /\ ~last.res.ok
    /\ last.res.err = "Unexpected endpoints map"
    /\ last.before # PyNone
    /\ endpoints = last.before
    /\ endpoints.base_url = Candidates(Host)[1]

---------------------------------------------------------------------------
(* The stores of hass.data[DOMAIN] *)

SetupOf(e, ok) ==
    last'.op = "async_setup_entry" /\ last'.entry = e /\ last'.res.ok = ok

UnloadOf(e, unload_ok) ==
    /\ last'.op = "async_unload_entry" /\ last'.entry = e
    /\ last'.res.ret = (IF unload_ok THEN JInt(1) ELSE JInt(0))

IsStore(st) == DOMAIN st = {"client", "data", "last_update_success",
                            "refresh_requested", "last_tts_media_url", "tts_event"}

\* an entry whose latest set-up succeeded and which was not unloaded since
SetUp(e) == entryState[e] \in {"loaded", "failed_unload"}

=============================================================================
